---- MODULE Spec2Model ----
(***************************************************************************)
(* A model of the AzusaImp plugin: the two JSON stores, the formatting     *)
(* helpers, the placeholder rewriting and the hook / command handlers.     *)
(*                                                                         *)
(* Text is modelled as a sequence of atoms.  An atom is one character,     *)
(* except that the literal pieces of a format string ("User ID: ",         *)
(* "nianling: ", ...) are one atom each, and the Chinese literals of the   *)
(* source are written in pinyin: the sentinel "weizhi" is the source's     *)
(* unknown marker, "nan" / "nv" its male / female.  Every value of a       *)
(* record field is a sequence of atoms.                                    *)
(***************************************************************************)
EXTENDS Integers, Sequences, FiniteSets, TLC

VARIABLES
    today,          \* datetime.now(): [year, month, day]
    phase,          \* position of the helper runs (SpecAge, SpecNick)
    birthday_in,    \* SpecAge: the birthday string under test
    age_out,        \* SpecAge: calculate_age(birthday_in)
    prompt_out,     \* SpecAge: format_user_info_for_prompt of a record holding birthday_in
    info_out,       \* SpecAge: the my_info reply for that record
    text_in,        \* SpecNick: pre_text
    store_in,       \* SpecNick: all_user_info
    text_out,       \* SpecNick: replace_nickname_in_context(store_in, text_in)
    text_again,     \* SpecNick: replace_nickname_in_context(store_in, text_out)
    variant,        \* "new": src/unnamed/part_000 (0.0.3); "old": src/main.py (0.0.1)
    user_file,      \* the content of user_info.json: qq_number -> user record
    group_file,     \* the content of group_info.json: group_id -> qq_number -> record
    loaded_users,   \* self.loaded_users of the old variant
    member,         \* what the platform reports now for each user in the group
    hook,           \* per sender: the on_llm_request_hook invocation in flight
    ev,             \* what the handler that returned last did
    last_ack,       \* the edit saved last, until its user's next request
    n_calls         \* handler invocations started (hooks and commands)

agevars == <<birthday_in, age_out, prompt_out, info_out>>
nickvars == <<text_in, store_in, text_out, text_again>>
dynvars == <<variant, user_file, group_file, loaded_users, member, hook, ev,
             last_ack, n_calls>>
vars == <<today, phase, agevars, nickvars, dynvars>>

(***************************************************************************)
(* Bounds                                                                  *)
(***************************************************************************)
MaxParts == 4       \* dash-separated parts of a birthday string under test
MaxPieces == 3      \* pieces a text under test is concatenated from
MaxCalls == 3       \* handler invocations (hooks and commands) in one behaviour

\* the variables of a helper run at rest
AgeIdle ==
    /\ birthday_in = <<>>
    /\ age_out = 0
    /\ prompt_out = <<>>
    /\ info_out = <<>>

NickIdle ==
    /\ text_in = <<>>
    /\ store_in = <<>>
    /\ text_out = <<>>
    /\ text_again = <<>>

(***************************************************************************)
(* Strings                                                                 *)
(***************************************************************************)
UNKNOWN == <<"weizhi">>

Digits == {"0", "1", "2", "3", "4", "5", "6", "7", "8", "9"}

DigitVal(c) ==
    CASE c = "0" -> 0 [] c = "1" -> 1 [] c = "2" -> 2 [] c = "3" -> 3
      [] c = "4" -> 4 [] c = "5" -> 5 [] c = "6" -> 6 [] c = "7" -> 7
      [] c = "8" -> 8 [] c = "9" -> 9

DigitChar(n) ==
    CASE n = 0 -> "0" [] n = 1 -> "1" [] n = 2 -> "2" [] n = 3 -> "3"
      [] n = 4 -> "4" [] n = 5 -> "5" [] n = 6 -> "6" [] n = 7 -> "7"
      [] n = 8 -> "8" [] n = 9 -> "9"

RECURSIVE NatToStr(_)
NatToStr(n) ==
    IF n < 10 THEN <<DigitChar(n)>>
    ELSE NatToStr(n \div 10) \o <<DigitChar(n % 10)>>

\* str(n) of a Python int, as an f-string renders it
IntToStr(n) == IF n < 0 THEN <<"-">> \o NatToStr(0 - n) ELSE NatToStr(n)

\* s.split(sep): the pieces between the separators, at least one piece
RECURSIVE str_split(_, _)
str_split(s, sep) ==
    IF \A i \in 1..Len(s) : s[i] # sep THEN <<s>>
    ELSE LET i == CHOOSE k \in 1..Len(s) :
                      s[k] = sep /\ \A j \in 1..(k - 1) : s[j] # sep
         IN  <<SubSeq(s, 1, i - 1)>> \o str_split(SubSeq(s, i + 1, Len(s)), sep)

\* sep.join(parts)
RECURSIVE str_join(_, _)
str_join(parts, sep) ==
    IF Len(parts) = 0 THEN <<>>
    ELSE IF Len(parts) = 1 THEN parts[1]
    ELSE parts[1] \o sep \o str_join(Tail(parts), sep)

RECURSIVE str_strip(_)
str_strip(s) ==
    IF Len(s) > 0 /\ s[1] = " " THEN str_strip(Tail(s))
    ELSE IF Len(s) > 0 /\ s[Len(s)] = " " THEN str_strip(SubSeq(s, 1, Len(s) - 1))
    ELSE s

RECURSIVE DigitsValue(_)
DigitsValue(s) ==
    IF Len(s) = 0 THEN 0
    ELSE IF s[Len(s)] = "_" THEN DigitsValue(SubSeq(s, 1, Len(s) - 1))
    ELSE 10 * DigitsValue(SubSeq(s, 1, Len(s) - 1)) + DigitVal(s[Len(s)])

\* int(s): surrounding blanks stripped, an optional sign, then digits that
\* single underscores may separate; anything else raises ValueError.
int_parse(s) ==
    LET t == str_strip(s)
        signed == Len(t) > 0 /\ t[1] \in {"+", "-"}
        body == IF signed THEN Tail(t) ELSE t
        ok == /\ Len(body) > 0
              /\ \A i \in 1..Len(body) : body[i] \in Digits \cup {"_"}
              /\ body[1] \in Digits
              /\ body[Len(body)] \in Digits
              /\ \A i \in 1..(Len(body) - 1) : ~(body[i] = "_" /\ body[i + 1] = "_")
    IN  IF ok
        THEN [raised |-> FALSE,
              val |-> IF signed /\ t[1] = "-" THEN 0 - DigitsValue(body)
                      ELSE DigitsValue(body)]
        ELSE [raised |-> TRUE, val |-> 0]

\* Python's comparison of two pairs
TupleLess(a, b) == a[1] < b[1] \/ (a[1] = b[1] /\ a[2] < b[2])

\* d.get(key, default)
Get(d, key, default) == IF key \in DOMAIN d THEN d[key] ELSE default

\* whether atom c occurs in text s
Contains(s, c) == \E i \in 1..Len(s) : s[i] = c

(***************************************************************************)
(* calculate_age                                                           *)
(***************************************************************************)
calculate_age_month_only(birthday, now) ==
    IF birthday = UNKNOWN THEN 0
    ELSE LET parts == str_split(birthday, "-") IN
         IF Len(parts) # 3 THEN 0
         ELSE LET y == int_parse(parts[1])
                  m == int_parse(parts[2])
                  d == int_parse(parts[3])
              IN  IF y.raised \/ m.raised \/ d.raised THEN 0
                  ELSE IF now.month < m.val
                       THEN now.year - y.val - 1
                       ELSE now.year - y.val

calculate_age(birthday, now) ==
    IF birthday = UNKNOWN THEN 0
    ELSE LET parts == str_split(birthday, "-") IN
         IF Len(parts) # 3 THEN 0
         ELSE LET y == int_parse(parts[1])
                  m == int_parse(parts[2])
                  d == int_parse(parts[3])
              IN  \* a ValueError of int() is caught: return 0
                  IF y.raised \/ m.raised \/ d.raised THEN 0
                  ELSE IF TupleLess(<<now.month, now.day>>, <<m.val, d.val>>)
                       THEN now.year - y.val - 1
                       ELSE now.year - y.val

get_gender_text(gender) ==
    CASE gender = <<"male">> -> <<"nan">>
      [] gender = <<"female">> -> <<"nv">>
      [] OTHER -> UNKNOWN

get_group_role_text(role) ==
    CASE role = <<"owner">> -> <<"qunzhu">>
      [] role = <<"admin">> -> <<"guanliyuan">>
      [] OTHER -> <<"chengyuan">>

(***************************************************************************)
(* format_user_info_for_prompt and the my_info reply                       *)
(***************************************************************************)
COMMA == "<fullwidth comma>"
WU == <<"wu">>

\* the age segment of the prompt summary: ["nianling: ", age, "sui"]
age_part(birthday, now) ==
    IF birthday # UNKNOWN /\ calculate_age(birthday, now) > 0
    THEN <<<<"nianling: ">> \o IntToStr(calculate_age(birthday, now)) \o <<"sui">>>>
    ELSE <<>>

\* variant "new" is src/unnamed/part_000, variant "old" is src/main.py
format_user_info_for_prompt(user_info, is_group, now, v) ==
    LET birthday == Get(user_info, "birthday", UNKNOWN)
        base == << <<"yonghu QQ hao: ">> \o Get(user_info, "qq_number", UNKNOWN),
                   <<"nicheng: ">> \o Get(user_info, "nickname", UNKNOWN) >>
        \* user_info.get('gender') is None for a record without the key,
        \* and None != the sentinel
        gender == IF Get(user_info, "gender", <<"None">>) # UNKNOWN
                  THEN << <<"xingbie: ">> \o Get(user_info, "gender", <<"None">>) >>
                  ELSE <<>>
        bday == IF v = "new" THEN << <<"shengri: ">> \o birthday >> ELSE <<>>
        group_role == Get(user_info, "group_role", <<>>)
        group_title == Get(user_info, "group_title", <<>>)
        role == IF v = "new" /\ is_group /\ group_role # <<>>
                THEN << <<"qun shenfen: ">> \o get_group_role_text(group_role) >>
                ELSE <<>>
        title == IF v = "new" /\ is_group /\ group_title # <<>> /\ group_title # WU
                 THEN << <<"qun touxian: ">> \o group_title >>
                 ELSE <<>>
    IN  str_join(base \o gender \o bday \o age_part(birthday, now) \o role \o title,
                 <<COMMA>>)

\* the reply text of show_my_info for a stored record
my_info_text(user_info, now) ==
    LET birthday == Get(user_info, "birthday", UNKNOWN)
        age == IF birthday # UNKNOWN /\ calculate_age(birthday, now) > 0
               THEN <<"<nl>nianling: ">> \o IntToStr(calculate_age(birthday, now))
                    \o <<"sui">>
               ELSE <<>>
    IN  <<"nin de xinxi:", "<nl>QQ: ">> \o Get(user_info, "qq_number", UNKNOWN)
        \o <<"<nl>nicheng: ">> \o Get(user_info, "nickname", UNKNOWN)
        \o <<"<nl>xingbie: ">> \o Get(user_info, "gender", UNKNOWN)
        \o <<"<nl>shengri: ">> \o birthday
        \o age

(***************************************************************************)
(* replace_nickname_in_context                                             *)
(***************************************************************************)
LB == "["
RB == "]"
UID == "User ID: "
NICK == ", Nickname: "

Placeholder(id, nickname) == <<LB, UID>> \o id \o <<NICK>> \o nickname \o <<RB>>

\* how many atoms from position i on are digits (\d+ takes them all)
DigitRun(text, i) ==
    LET stops == {k \in i..Len(text) : text[k] \notin Digits} IN
    IF i > Len(text) THEN 0
    ELSE IF stops = {} THEN Len(text) - i + 1
    ELSE (CHOOSE k \in stops : \A j \in stops : k <= j) - i

\* how many atoms from position i on are not "]" ([^\]]+ takes them all)
NotRBRun(text, i) ==
    LET stops == {k \in i..Len(text) : text[k] = RB} IN
    IF i > Len(text) THEN 0
    ELSE IF stops = {} THEN Len(text) - i + 1
    ELSE (CHOOSE k \in stops : \A j \in stops : k <= j) - i

\* the regular expression \[User ID: (\d+), Nickname: ([^\]]+)\] tried at
\* position i; both repetitions are greedy and neither can give back an atom
\* the rest of the pattern accepts.
placeholder_match(text, i) ==
    LET d == DigitRun(text, i + 2)
        n == NotRBRun(text, i + 3 + d)
        e == i + 3 + d + n
    IN  IF /\ i + 1 <= Len(text)
           /\ text[i] = LB
           /\ text[i + 1] = UID
           /\ d >= 1
           /\ i + 2 + d <= Len(text)
           /\ text[i + 2 + d] = NICK
           /\ n >= 1
           /\ e <= Len(text)
           /\ text[e] = RB
        THEN [found |-> TRUE, qq_number |-> SubSeq(text, i + 2, i + 1 + d),
              old_nickname |-> SubSeq(text, i + 3 + d, e - 1), end |-> e]
        ELSE [found |-> FALSE, qq_number |-> <<>>, old_nickname |-> <<>>, end |-> i]

replace_callback_always(all_user_info, m, whole) ==
    IF m.qq_number \in DOMAIN all_user_info
    THEN Placeholder(m.qq_number, Get(all_user_info[m.qq_number], "nickname", <<>>))
    ELSE whole

replace_callback(all_user_info, m, whole) ==
    IF m.qq_number \in DOMAIN all_user_info /\ DOMAIN all_user_info[m.qq_number] # {}
    THEN LET new_nickname == Get(all_user_info[m.qq_number], "nickname", <<>>) IN
         IF new_nickname = m.old_nickname THEN whole
         ELSE IF new_nickname # <<>> THEN Placeholder(m.qq_number, new_nickname)
         ELSE whole
    ELSE whole

\* re.sub: leftmost matches, not overlapping, the rest copied
RECURSIVE re_sub(_, _, _)
re_sub(all_user_info, text, i) ==
    IF i > Len(text) THEN <<>>
    ELSE LET m == placeholder_match(text, i) IN
         IF m.found
         THEN replace_callback(all_user_info, m, SubSeq(text, i, m.end))
              \o re_sub(all_user_info, text, m.end + 1)
         ELSE <<text[i]>> \o re_sub(all_user_info, text, i + 1)

replace_nickname_in_context(all_user_info, pre_text) ==
    IF DOMAIN all_user_info = {} \/ pre_text = <<>> THEN pre_text
    ELSE re_sub(all_user_info, pre_text, 1)

(***************************************************************************)
(* The stores, the platform and the handlers                               *)
(*                                                                         *)
(* A record is a function from its keys to texts; the timestamp fields are *)
(* left out.  A handler runs without interruption between two awaits, so   *)
(* a hook invocation for a new user is three steps (up to the await of     *)
(* get_stranger_info, up to the await of get_group_member_info, the rest)  *)
(* and every other handler is one step.                                    *)
(***************************************************************************)
Users == {<<"1">>, <<"2">>}
GroupId == <<"7">>
\* user 1 writes in the group and in private, user 2 in private only
GroupMembers == {<<"1">>}
NoGroup == <<>>
EmptyMap == <<>>

\* d[key] = value, and d.update(e)
Put(d, key, value) == (key :> value) @@ d
Update(d, e) == e @@ d

\* event.get_sender_name()
SenderName(u) == IF u = <<"1">> THEN <<"a">> ELSE <<"b">>

\* the answer of get_stranger_info; user 2 has no birthday_day
StrangerInfo(u) ==
    IF u = <<"1">>
    THEN [sex |-> <<"male">>, birthday_year |-> 2000, birthday_month |-> 1,
          birthday_day |-> 1]
    ELSE [sex |-> <<"unknown">>, birthday_year |-> 1999, birthday_month |-> 12]

\* the answers of get_group_member_info
MemberInfos ==
    { [role |-> <<"member">>, title |-> <<>>],
      [role |-> <<"admin">>, title |-> <<"t">>] }

Originals == {<<"sys">>}
ReqContext == Placeholder(<<"1">>, <<"z">>) \o <<"hi">>
NewNicknames == {<<"c">>}
NewBirthdays ==
    { <<"2", "0", "0", "0", "-", "2", "-", "3", "1">>,
      <<"2", "0", "0", "0", "-", "1", "3", "-", "0", "1">> }
NewGenders == {<<"nan">>, UNKNOWN}
WriteOutcomes == {"ok", "failed"}

load_user_info_reraise(file, read_ok) ==
    IF read_ok THEN [raised |-> FALSE, val |-> file]
    ELSE [raised |-> TRUE, val |-> EmptyMap]

\* a missing file, a failed open and a failed json.load all give {}
load_user_info(file, read_ok) ==
    IF read_ok THEN [raised |-> FALSE, val |-> file]
    ELSE [raised |-> FALSE, val |-> EmptyMap]

load_group_info(file, read_ok) ==
    IF read_ok THEN [raised |-> FALSE, val |-> file]
    ELSE [raised |-> FALSE, val |-> EmptyMap]

\* a failed write is caught and leaves the file as it was.  (A write that
\* fails after open(..., 'w') truncated the file leaves a file no load can
\* parse: every later load then takes its read_ok = FALSE branch.)
save_user_info(file, user_info, outcome) ==
    [raised |-> FALSE, file |-> IF outcome = "ok" THEN user_info ELSE file]

save_group_info(file, group_info, outcome) ==
    [raised |-> FALSE, file |-> IF outcome = "ok" THEN group_info ELSE file]

parse_birthday(stranger_info) ==
    IF /\ Get(stranger_info, "birthday_year", 0) # 0
       /\ Get(stranger_info, "birthday_month", 0) # 0
       /\ Get(stranger_info, "birthday_day", 0) # 0
    THEN IntToStr(stranger_info.birthday_year) \o <<"-">>
         \o IntToStr(stranger_info.birthday_month) \o <<"-">>
         \o IntToStr(stranger_info.birthday_day)
    ELSE UNKNOWN

\* get_qq_user_info, in the three pieces its awaits cut it into
user_info_base(u) == [qq_number |-> u, nickname |-> SenderName(u)]

user_info_with_stranger(user_info, stranger_info) ==
    Update(user_info,
           [gender |-> get_gender_text(Get(stranger_info, "sex", <<"unknown">>)),
            birthday |-> parse_birthday(stranger_info)])

user_info_with_member(user_info, group_member_info) ==
    Update(user_info,
           [group_role |-> Get(group_member_info, "role", <<"member">>),
            group_title |-> IF Get(group_member_info, "title", <<>>) = <<>>
                            THEN WU ELSE group_member_info.title])

\* the records the hook creates: the platform answered, or the call failed
CreatedRecord(u, answered) ==
    IF answered THEN user_info_with_stranger(user_info_base(u), StrangerInfo(u))
    ELSE user_info_base(u)

\* the system prompt the hook leaves
inject_prompt(user_info, is_group, original, now, v) ==
    IF v = "new"
    THEN <<"dangqian duihua yonghu xinxi: ">>
         \o format_user_info_for_prompt(user_info, is_group, now, v)
         \o <<". qing chenghu yonghu wei">> \o Get(user_info, "nickname", <<"yonghu">>)
         \o <<".">> \o original
    ELSE <<"dangqian duihua yonghu xinxi: ">>
         \o format_user_info_for_prompt(user_info, is_group, now, v)
         \o <<".<nl><nl>">> \o original

\* the except clause that closes every handler logs (or replies) and returns
handler_outcome(raised) == "returned"

IdleTask ==
    [pc |-> "idle", all_user_info |-> EmptyMap, all_group_info |-> EmptyMap,
     user_info |-> EmptyMap, group_id |-> NoGroup, original |-> <<>>,
     had_record |-> FALSE, fault |-> FALSE]

NoEv ==
    [kind |-> "none", cmd |-> "", arg |-> <<>>, user |-> <<>>, platform |-> "",
     early |-> FALSE,
     had_record |-> FALSE, created |-> FALSE, fault |-> FALSE,
     wrote_user |-> FALSE, record |-> EmptyMap, group_id |-> NoGroup,
     original |-> <<>>, system_prompt |-> <<>>, context |-> <<>>,
     lost_edit |-> FALSE, escaped |-> {}, outcome |-> "returned", reply |-> <<>>,
     reported |-> [role |-> <<>>, title |-> <<>>]]

NoAck == [user |-> <<>>, field |-> "", value |-> <<>>]

DynIdle ==
    /\ variant = "new"
    /\ user_file = EmptyMap
    /\ group_file = EmptyMap
    /\ loaded_users = {}
    /\ member = [u \in GroupMembers |-> [role |-> <<"member">>, title |-> <<>>]]
    /\ hook = [u \in Users |-> IdleTask]
    /\ ev = NoEv
    /\ last_ack = NoAck
    /\ n_calls = 0

Init ==
    /\ today = [year |-> 2024, month |-> 6, day |-> 1]
    /\ phase = "run"
    /\ AgeIdle
    /\ NickIdle
    /\ variant = "new"
    /\ user_file = EmptyMap
    /\ group_file = EmptyMap
    /\ loaded_users = {}
    /\ member \in [GroupMembers -> MemberInfos]
    /\ hook = [u \in Users |-> IdleTask]
    /\ ev = NoEv
    /\ last_ack = NoAck
    /\ n_calls = 0

\* the hook from "if is_group" (new) or "loaded_users.add" (old) to its end,
\* for the sender's record all_user_info[u]
HookReturn(u, all_user_info, all_group_info, group_id, original, facts) ==
    \E w_group \in IF variant = "new" /\ group_id # NoGroup THEN WriteOutcomes
                     ELSE {"ok"} :
        LET is_group == group_id # NoGroup
            user_info == all_user_info[u]
            group_info ==
                [qq_number |-> u, group_id |-> group_id,
                 group_role |-> Get(user_info, "group_role", <<"member">>),
                 group_title |-> Get(user_info, "group_title", WU),
                 nickname |-> Get(user_info, "nickname", UNKNOWN)]
            groups == Put(all_group_info, group_id,
                          Put(Get(all_group_info, group_id, EmptyMap), u, group_info))
            saved == save_group_info(group_file, groups, w_group)
        IN  /\ group_file' = IF variant = "new" /\ is_group THEN saved.file
                             ELSE group_file
            /\ loaded_users' = IF variant = "old" THEN loaded_users \cup {u}
                               ELSE loaded_users
            /\ ev' = [NoEv EXCEPT
                        !.kind = "hook", !.user = u, !.platform = "aiocqhttp",
                        !.had_record = facts.had_record,
                        !.created = facts.created,
                        !.fault = facts.fault \/ w_group # "ok",
                        !.wrote_user = facts.wrote_user,
                        !.lost_edit = facts.lost_edit,
                        !.record = user_info,
                        !.group_id = group_id,
                        !.reported = IF is_group THEN member[u] ELSE NoEv.reported,
                        !.original = original,
                        !.system_prompt =
                            inject_prompt(user_info, is_group, original, today, variant),
                        !.context =
                            IF variant = "new"
                            THEN replace_nickname_in_context(all_user_info, ReqContext)
                            ELSE ReqContext,
                        !.outcome = handler_outcome(FALSE)]

\* the hook after get_qq_user_info returned user_info for a new user
HookFinish_reload(u, t, user_info, fault) ==
    \E w_user \in WriteOutcomes :
        LET all_user_info == Put(user_file, u, user_info)
            saved == save_user_info(user_file, all_user_info, w_user)
        IN  /\ user_file' = saved.file
            /\ hook' = [hook EXCEPT ![u] = IdleTask]
            /\ HookReturn(u, all_user_info, t.all_group_info, t.group_id, t.original,
                          [had_record |-> t.had_record, created |-> TRUE,
                           fault |-> fault \/ w_user # "ok",
                           wrote_user |-> w_user = "ok",
                           lost_edit |-> FALSE])

HookFinish(u, t, user_info, fault) ==
    \E w_user \in WriteOutcomes :
        LET all_user_info == Put(t.all_user_info, u, user_info)
            saved == save_user_info(user_file, all_user_info, w_user)
            w == last_ack.user
            \* an edit of another user that is in the file and not in the copy
            lost == /\ w_user = "ok"
                    /\ w \in Users \ {u}
                    /\ w \in DOMAIN user_file
                    /\ w \in DOMAIN t.all_user_info
                    /\ Get(user_file[w], last_ack.field, <<>>) = last_ack.value
                    /\ Get(all_user_info[w], last_ack.field, <<>>) # last_ack.value
        IN  /\ user_file' = saved.file
            /\ hook' = [hook EXCEPT ![u] = IdleTask]
            /\ HookReturn(u, all_user_info, t.all_group_info, t.group_id, t.original,
                          [had_record |-> t.had_record, created |-> TRUE,
                           fault |-> fault \/ w_user # "ok",
                           wrote_user |-> w_user = "ok",
                           lost_edit |-> lost])

\* on_llm_request_hook up to its first await, or to its end when it has none
HookStart(u) ==
    /\ phase = "run"
    /\ hook[u].pc = "idle"
    /\ n_calls < MaxCalls
    /\ n_calls' = n_calls + 1
    /\ \E platform \in {"aiocqhttp", "other"},
          group_id \in IF u \in GroupMembers THEN {NoGroup, GroupId} ELSE {NoGroup},
          original \in Originals, read_ok \in BOOLEAN,
          read_group_ok \in IF variant = "new" THEN BOOLEAN ELSE {TRUE} :
        LET loaded == load_user_info(user_file, read_ok)
            groups == IF variant = "new" THEN load_group_info(group_file, read_group_ok).val
                      ELSE EmptyMap
            t == [pc |-> "await_stranger", all_user_info |-> loaded.val,
                  all_group_info |-> groups, user_info |-> user_info_base(u),
                  group_id |-> group_id, original |-> original,
                  had_record |-> u \in DOMAIN user_file,
                  fault |-> ~read_ok \/ ~read_group_ok]
            early == [NoEv EXCEPT !.kind = "hook", !.user = u, !.platform = platform,
                                  !.early = TRUE,
                                  !.had_record = u \in DOMAIN user_file,
                                  !.group_id = group_id, !.original = original,
                                  !.system_prompt = original, !.context = ReqContext]
        IN  \* an edit is remembered until its user's next request
            /\ last_ack' = IF platform = "aiocqhttp" /\ last_ack.user = u
                            THEN NoAck ELSE last_ack
            /\ IF platform # "aiocqhttp" \/ (variant = "old" /\ u \in loaded_users)
               THEN \* return before anything is loaded
                    /\ ev' = early
                    /\ UNCHANGED <<user_file, group_file, loaded_users, hook>>
               ELSE IF loaded.raised
               THEN \* the hook's except clause
                    /\ ev' = [early EXCEPT !.early = FALSE,
                                           !.escaped = {"load_user_info"},
                                           !.outcome = handler_outcome(TRUE)]
                    /\ UNCHANGED <<user_file, group_file, loaded_users, hook>>
               ELSE IF u \in DOMAIN loaded.val
               THEN /\ UNCHANGED <<user_file, hook>>
                    /\ HookReturn(u, loaded.val, groups, group_id, original,
                                  [had_record |-> u \in DOMAIN user_file,
                                   created |-> FALSE,
                                   fault |-> ~read_ok \/ ~read_group_ok,
                                   wrote_user |-> FALSE, lost_edit |-> FALSE])
               ELSE \* get_qq_user_info awaits get_stranger_info
                    /\ hook' = [hook EXCEPT ![u] = t]
                    /\ UNCHANGED <<user_file, group_file, loaded_users, ev>>
    /\ UNCHANGED <<today, phase, agevars, nickvars, variant, member>>

\* get_stranger_info answers or fails
HookStranger(u) ==
    /\ hook[u].pc = "await_stranger"
    /\ \E ok \in BOOLEAN :
        LET t == hook[u]
            user_info == user_info_with_stranger(t.user_info, StrangerInfo(u))
        IN  IF ~ok
            THEN \* the except clause of get_qq_user_info: the group part is skipped
                 HookFinish(u, t, t.user_info, TRUE)
            ELSE IF variant = "new" /\ t.group_id # NoGroup
            THEN /\ hook' = [hook EXCEPT ![u] = [t EXCEPT !.pc = "await_member",
                                                          !.user_info = user_info]]
                 /\ UNCHANGED <<user_file, group_file, loaded_users, ev>>
            ELSE HookFinish(u, t, user_info, t.fault)
    /\ UNCHANGED <<today, phase, agevars, nickvars, variant, member, last_ack,
                   n_calls>>

\* get_group_member_info answers or fails
HookMember(u) ==
    /\ hook[u].pc = "await_member"
    /\ \E ok \in BOOLEAN :
        LET t == hook[u] IN
        HookFinish(u, t,
                   IF ok THEN user_info_with_member(t.user_info, member[u])
                   ELSE t.user_info,
                   t.fault \/ ~ok)
    /\ UNCHANGED <<today, phase, agevars, nickvars, variant, member, last_ack,
                   n_calls>>

birthday_accepted_no_year(new_birthday, now) ==
    LET parts == str_split(new_birthday, "-") IN
    /\ Len(parts) = 3
    /\ ~int_parse(parts[1]).raised
    /\ ~int_parse(parts[2]).raised
    /\ ~int_parse(parts[3]).raised
    /\ 1 <= int_parse(parts[2]).val
    /\ int_parse(parts[2]).val <= 12
    /\ 1 <= int_parse(parts[3]).val
    /\ int_parse(parts[3]).val <= 31

\* the validation of update_birthday: TRUE when no ValueError is raised
birthday_accepted(new_birthday, now) ==
    LET parts == str_split(new_birthday, "-") IN
    /\ Len(parts) = 3
    /\ ~int_parse(parts[1]).raised
    /\ ~int_parse(parts[2]).raised
    /\ ~int_parse(parts[3]).raised
    /\ 1900 <= int_parse(parts[1]).val
    /\ int_parse(parts[1]).val <= now.year
    /\ 1 <= int_parse(parts[2]).val
    /\ int_parse(parts[2]).val <= 12
    /\ 1 <= int_parse(parts[3]).val
    /\ int_parse(parts[3]).val <= 31

gender_accepted(new_gender) == new_gender \in {<<"nan">>, <<"nv">>}

\* the three edit commands: load, check, set one field, save, reply
UpdateField(u, cmd, field, value, accepted, rejection) ==
    /\ phase = "run"
    /\ n_calls < MaxCalls
    /\ n_calls' = n_calls + 1
    /\ \E read_ok \in BOOLEAN, w_user \in WriteOutcomes :
        LET loaded == load_user_info(user_file, read_ok)
            all_user_info == [loaded.val EXCEPT ![u] = Put(@, field, value)]
            saved == save_user_info(user_file, all_user_info, w_user)
            done == [NoEv EXCEPT !.kind = "cmd", !.cmd = cmd, !.arg = value,
                                 !.user = u,
                                 !.had_record = u \in DOMAIN user_file,
                                 !.fault = ~read_ok]
        IN  IF loaded.raised
            THEN \* the command's except clause replies
                 /\ ev' = [done EXCEPT !.reply = <<"gengxin shibai">>,
                                       !.escaped = {"load_user_info"},
                                       !.outcome = handler_outcome(TRUE)]
                 /\ UNCHANGED <<user_file, loaded_users, last_ack>>
            ELSE IF u \notin DOMAIN loaded.val
            THEN /\ ev' = [done EXCEPT !.reply = <<"nin de yonghu xinxi bu cunzai">>]
                 /\ UNCHANGED <<user_file, loaded_users, last_ack>>
            ELSE IF ~accepted
            THEN /\ ev' = [done EXCEPT !.reply = rejection]
                 /\ UNCHANGED <<user_file, loaded_users, last_ack>>
            ELSE /\ user_file' = saved.file
                 /\ loaded_users' = IF variant = "old" THEN loaded_users \ {u}
                                    ELSE loaded_users
                 /\ last_ack' = IF w_user = "ok"
                                 THEN [user |-> u, field |-> field, value |-> value]
                                 ELSE last_ack
                 /\ ev' = [done EXCEPT !.reply = <<"yi gengxin nin de ">> \o <<field>>
                                                  \o <<": ">> \o value,
                                       !.wrote_user = w_user = "ok",
                                       !.fault = ~read_ok \/ w_user # "ok",
                                       !.record = all_user_info[u]]
    /\ UNCHANGED <<today, phase, agevars, nickvars, variant, group_file, member, hook>>

update_nickname(u) ==
    \E new_nickname \in NewNicknames :
        UpdateField(u, "update_nickname", "nickname", new_nickname, TRUE, <<>>)

\* update_birthday with its argument drawn from the set birthdays
update_birthday_of(u, birthdays) ==
    \E new_birthday \in birthdays :
        UpdateField(u, "update_birthday", "birthday", new_birthday,
                    birthday_accepted(new_birthday, today),
                    <<"shengri geshi bu zhengque">>)

update_birthday(u) == update_birthday_of(u, NewBirthdays)

\* update_gender with its argument drawn from the set genders
update_gender_of(u, genders) ==
    \E new_gender \in genders :
        UpdateField(u, "update_gender", "gender", new_gender,
                    gender_accepted(new_gender), <<"xingbie bixu shi: nan, nv">>)

update_gender(u) == update_gender_of(u, NewGenders)

show_my_info(u) ==
    /\ phase = "run"
    /\ n_calls < MaxCalls
    /\ n_calls' = n_calls + 1
    /\ \E read_ok \in BOOLEAN :
        LET loaded == load_user_info(user_file, read_ok)
            done == [NoEv EXCEPT !.kind = "cmd", !.cmd = "my_info", !.user = u,
                                 !.had_record = u \in DOMAIN user_file,
                                 !.fault = ~read_ok]
        IN  ev' = IF loaded.raised
                  THEN [done EXCEPT !.reply = <<"huoqu xinxi shibai">>,
                                    !.escaped = {"load_user_info"},
                                    !.outcome = handler_outcome(TRUE)]
                  ELSE IF u \notin DOMAIN loaded.val
                  THEN [done EXCEPT !.reply = <<"nin de yonghu xinxi bu cunzai">>]
                  ELSE [done EXCEPT !.reply = my_info_text(loaded.val[u], today),
                                    !.record = loaded.val[u]]
    /\ UNCHANGED <<today, phase, agevars, nickvars, variant, user_file, group_file,
                   loaded_users, member, hook, last_ack>>

\* the platform: a member's role and title in the group change
PlatformChange(u) ==
    /\ phase = "run"
    /\ u \in GroupMembers
    /\ \E m \in MemberInfos \ {member[u]} : member' = [member EXCEPT ![u] = m]
    /\ UNCHANGED <<today, phase, agevars, nickvars, variant, user_file, group_file,
                   loaded_users, hook, ev, last_ack, n_calls>>

Next ==
    \E u \in Users :
        \/ HookStart(u)
        \/ HookStranger(u)
        \/ HookMember(u)
        \/ update_nickname(u)
        \/ update_birthday(u)
        \/ update_gender(u)
        \/ show_my_info(u)
        \/ PlatformChange(u)

Spec == Init /\ [][Next]_vars

\* the old variant: no group lookup, the loaded_users cache.  The plugin
\* starts with no store file, or is started again on the store an earlier
\* run left (loaded_users is in memory only and starts empty).
OldStores == {EmptyMap, (<<"1">> :> CreatedRecord(<<"1">>, TRUE))}

InitOld ==
    /\ today = [year |-> 2024, month |-> 6, day |-> 1]
    /\ phase = "run"
    /\ AgeIdle
    /\ NickIdle
    /\ variant = "old"
    /\ user_file \in OldStores
    /\ group_file = EmptyMap
    /\ loaded_users = {}
    /\ member \in [GroupMembers -> MemberInfos]
    /\ hook = [u \in Users |-> IdleTask]
    /\ ev = NoEv
    /\ last_ack = NoAck
    /\ n_calls = 0

NextOld ==
    \E u \in Users :
        \/ HookStart(u)
        \/ HookStranger(u)
        \/ update_nickname(u)
        \/ update_birthday(u)
        \/ update_gender(u)
        \/ show_my_info(u)

SpecOld == InitOld /\ [][NextOld]_vars

(***************************************************************************)
(* SpecEdit: the commands of the newer variant on a store that earlier    *)
(* hook invocations filled, with arguments drawn from wider sets           *)
(***************************************************************************)
\* the arguments of update_birthday: accepted ones (padded, unpadded, a
\* leading blank, a day no month has) and one for every reason of rejection
EditBirthdays ==
    { <<"2", "0", "0", "0", "-", "2", "-", "3", "1">>,
      <<"1", "9", "0", "0", "-", "0", "1", "-", "0", "1">>,
      <<"2", "0", "2", "4", "-", "1", "2", "-", " ", "1">>,
      <<"2", "0", "0", "0", "-", "1", "3", "-", "0", "1">>,
      <<"2", "0", "0", "0", "-", "0", "-", "1">>,
      <<"1", "8", "9", "9", "-", "1", "-", "1">>,
      <<"2", "0", "2", "5", "-", "1", "-", "1">>,
      <<"2", "0", "0", "0", "-", "1", "-", "3", "2">>,
      <<"2", "0", "0", "0", "-", "1", "-", "0">>,
      <<"2", "0", "0", "0", "-", "1">>,
      <<"2", "0", "0", "0", "-", "1", "-", "1", "-", "1">>,
      <<"2", "0", "0", "0", "-", "x", "-", "1">>,
      <<"2", "0", "0", "0", "-", "-", "1">>,
      UNKNOWN }

EditGenders == {<<"nan">>, <<"nv">>, UNKNOWN, <<"x">>, <<"male">>}

\* stores after the hook ran for user 1 alone, and for both users with the
\* platform call of user 1 failed
EditStores ==
    { (<<"1">> :> CreatedRecord(<<"1">>, TRUE)),
      (<<"1">> :> CreatedRecord(<<"1">>, FALSE))
          @@ (<<"2">> :> CreatedRecord(<<"2">>, TRUE)) }

InitEdit ==
    /\ today = [year |-> 2024, month |-> 6, day |-> 1]
    /\ phase = "run"
    /\ AgeIdle
    /\ NickIdle
    /\ variant = "new"
    /\ user_file \in EditStores
    /\ group_file = EmptyMap
    /\ loaded_users = {}
    /\ member = [u \in GroupMembers |-> [role |-> <<"member">>, title |-> <<>>]]
    /\ hook = [u \in Users |-> IdleTask]
    /\ ev = NoEv
    /\ last_ack = NoAck
    /\ n_calls = 0

NextEdit ==
    \E u \in Users :
        \/ update_nickname(u)
        \/ update_birthday_of(u, EditBirthdays)
        \/ update_gender_of(u, EditGenders)
        \/ show_my_info(u)

SpecEdit == InitEdit /\ [][NextEdit]_vars

(***************************************************************************)
(* SpecAge: calculate_age, the prompt summary and the my_info reply        *)
(* applied to birthday strings drawn from a bounded set                    *)
(***************************************************************************)
PartStrs ==
    { <<"2", "0", "0", "0">>, <<"2", "0", "2", "3">>, <<"0", "1">>, <<"6">>,
      <<"1", "3">>, <<"3", "1">>, <<"x">>, <<>>, <<" ", "1">> }

RECURSIVE PartLists(_)
PartLists(n) ==
    IF n = 0 THEN {<<>>}
    ELSE LET shorter == PartLists(n - 1) IN
         shorter \cup {Append(l, q) : l \in {x \in shorter : Len(x) = n - 1},
                                      q \in PartStrs}

BirthdayStrs ==
    {UNKNOWN} \cup {str_join(l, <<"-">>) : l \in PartLists(MaxParts) \ {<<>>}}

Todays ==
    { [year |-> 2024, month |-> 6, day |-> 1],
      [year |-> 2024, month |-> 1, day |-> 1],
      [year |-> 2024, month |-> 12, day |-> 31] }

AgeRecord ==
    [qq_number |-> <<"1">>, nickname |-> <<"a">>, gender |-> UNKNOWN,
     birthday |-> birthday_in]

InitAge ==
    /\ today \in Todays
    /\ phase = "start"
    /\ birthday_in \in BirthdayStrs
    /\ age_out = 0
    /\ prompt_out = <<>>
    /\ info_out = <<>>
    /\ NickIdle
    /\ DynIdle

AgeCalc ==
    /\ phase = "start"
    /\ age_out' = calculate_age(birthday_in, today)
    /\ phase' = "age"
    /\ UNCHANGED <<today, birthday_in, prompt_out, info_out, nickvars, dynvars>>

AgePrompt ==
    /\ phase = "age"
    /\ prompt_out' = format_user_info_for_prompt(AgeRecord, FALSE, today, "new")
    /\ phase' = "prompt"
    /\ UNCHANGED <<today, birthday_in, age_out, info_out, nickvars, dynvars>>

AgeInfo ==
    /\ phase = "prompt"
    /\ info_out' = my_info_text(AgeRecord, today)
    /\ phase' = "done"
    /\ UNCHANGED <<today, birthday_in, age_out, prompt_out, nickvars, dynvars>>

NextAge == AgeCalc \/ AgePrompt \/ AgeInfo

SpecAge == InitAge /\ [][NextAge]_vars

\* the string is three dash-separated parts, each an integer literal
IsYMD(s) ==
    \E i, j \in 1..Len(s) :
        /\ i < j
        /\ \A k \in 1..Len(s) : s[k] = "-" <=> k \in {i, j}
        /\ ~int_parse(SubSeq(s, 1, i - 1)).raised
        /\ ~int_parse(SubSeq(s, i + 1, j - 1)).raised
        /\ ~int_parse(SubSeq(s, j + 1, Len(s))).raised

DashAt(s, n) ==
    CHOOSE k \in 1..Len(s) :
        s[k] = "-" /\ Cardinality({j \in 1..k : s[j] = "-"}) = n

YearOf(s) == int_parse(SubSeq(s, 1, DashAt(s, 1) - 1)).val
MonthOf(s) == int_parse(SubSeq(s, DashAt(s, 1) + 1, DashAt(s, 2) - 1)).val
DayOf(s) == int_parse(SubSeq(s, DashAt(s, 2) + 1, Len(s))).val

\* C1: for a birthday Y-M-D with integer parts, calculate_age is the year
\* difference, less one when (current month, current day) < (M, D) as pairs;
\* 2000-01-01 against 2024-06-01 gives 24.
C1_AgeByTupleComparison ==
    /\ (phase # "start" /\ IsYMD(birthday_in)) =>
          age_out = (today.year - YearOf(birthday_in))
                    - (IF \/ today.month < MonthOf(birthday_in)
                          \/ /\ today.month = MonthOf(birthday_in)
                             /\ today.day < DayOf(birthday_in)
                       THEN 1 ELSE 0)
    /\ ( /\ phase # "start"
         /\ birthday_in = <<"2", "0", "0", "0", "-", "0", "1", "-", "0", "1">>
         /\ today = [year |-> 2024, month |-> 6, day |-> 1] ) => age_out = 24

\* a birthday in the current month and later in it: the day decides
C1_Witness ==
    /\ phase = "done"
    /\ birthday_in = <<"2", "0", "0", "0", "-", "6", "-", "3", "1">>
    /\ today = [year |-> 2024, month |-> 6, day |-> 1]
    /\ age_out = 23

IsLeap(y) == (y % 4 = 0 /\ y % 100 # 0) \/ y % 400 = 0

DaysIn(y, m) ==
    CASE m \in {1, 3, 5, 7, 8, 10, 12} -> 31
      [] m \in {4, 6, 9, 11} -> 30
      [] OTHER -> IF IsLeap(y) THEN 29 ELSE 28

\* three dash-separated integers that denote a real calendar date
IsRealDate(s) ==
    /\ IsYMD(s)
    /\ YearOf(s) >= 1
    /\ MonthOf(s) \in 1..12
    /\ DayOf(s) \in 1..DaysIn(YearOf(s), MonthOf(s))

\* C2: for the unknown sentinel and for every malformed birthday (not three
\* dash-separated integers denoting a real calendar date) calculate_age is 0
\* and neither the prompt summary nor the my_info reply has an age segment.
C2_MalformedBirthdayAgeZero ==
    (phase = "done" /\ (birthday_in = UNKNOWN \/ ~IsRealDate(birthday_in))) =>
        /\ age_out = 0
        /\ ~Contains(prompt_out, "nianling: ")
        /\ ~Contains(info_out, "<nl>nianling: ")

(***************************************************************************)
(* SpecNick: replace_nickname_in_context applied to texts and stores drawn *)
(* from bounded sets                                                       *)
(***************************************************************************)
NickIds == {<<"1">>, <<"2">>}

NickRecs ==
    UNION {
        {[qq_number |-> id, nickname |-> n] :
            n \in {<<"a">>, <<"b">>, <<>>, <<"a", RB>>, <<LB, "a">>}}
        \cup {[qq_number |-> id]} : id \in NickIds}

NickStores ==
    UNION {{f \in [D -> NickRecs] : \A id \in D : f[id].qq_number = id} :
           D \in SUBSET NickIds}

Pieces ==
    { Placeholder(<<"1">>, <<"a">>), Placeholder(<<"2">>, <<"b">>),
      Placeholder(<<"0", "1">>, <<"a">>), <<LB, UID, "1", NICK>>,
      <<"x">>, <<RB>>, <<LB, UID, NICK, "a", RB>> }

RECURSIVE PieceTexts(_)
PieceTexts(n) ==
    IF n = 0 THEN {<<>>}
    ELSE {t \o q : t \in PieceTexts(n - 1), q \in Pieces \cup {<<>>}}

InitNick ==
    /\ today = [year |-> 2024, month |-> 6, day |-> 1]
    /\ phase = "start"
    /\ text_in \in PieceTexts(MaxPieces)
    /\ store_in \in NickStores
    /\ text_out = <<>>
    /\ text_again = <<>>
    /\ AgeIdle
    /\ DynIdle

NickReplace ==
    /\ phase = "start"
    /\ text_out' = replace_nickname_in_context(store_in, text_in)
    /\ phase' = "done"
    /\ UNCHANGED <<today, text_in, store_in, text_again, agevars, dynvars>>

\* the next request: the hook applies the function to the context it rewrote
NickReplaceAgain ==
    /\ phase = "done"
    /\ text_again' = replace_nickname_in_context(store_in, text_out)
    /\ phase' = "again"
    /\ UNCHANGED <<today, text_in, store_in, text_out, agevars, dynvars>>

NextNick == NickReplace \/ NickReplaceAgain

SpecNick == InitNick /\ [][NextNick]_vars

\* t is "[User ID: <digits>, Nickname: <text without ]>]" with d digits
IsPlaceholderWith(t, d) ==
    /\ Len(t) >= d + 5
    /\ t[1] = LB
    /\ t[2] = UID
    /\ \A k \in 3..(d + 2) : t[k] \in Digits
    /\ t[d + 3] = NICK
    /\ \A k \in (d + 4)..(Len(t) - 1) : t[k] # RB
    /\ t[Len(t)] = RB

IsPlaceholder(t) == \E d \in 1..Len(t) : IsPlaceholderWith(t, d)

IdLen(t) == CHOOSE d \in 1..Len(t) : IsPlaceholderWith(t, d)
IdOf(t) == SubSeq(t, 3, IdLen(t) + 2)
NickOf(t) == SubSeq(t, IdLen(t) + 4, Len(t) - 1)

\* what the claim says becomes of one token
Rewritten(store, t) ==
    IF IdOf(t) \notin DOMAIN store THEN t
    ELSE LET stored == Get(store[IdOf(t)], "nickname", <<>>) IN
         IF stored = NickOf(t) \/ stored = <<>> THEN t
         ELSE Placeholder(IdOf(t), stored)

\* the ends j of the tokens that start at k (at most one: the first "]")
TokenEnds(text, k) ==
    IF text[k] # LB THEN {}
    ELSE {j \in k..Len(text) : text[j] = RB /\ IsPlaceholder(SubSeq(text, k, j))}

\* the tokens of the text, taken from the left: a token-shaped text inside the
\* nickname of a token is part of that nickname
RECURSIVE Tokens(_, _)
Tokens(text, k) ==
    IF k > Len(text) THEN {}
    ELSE IF TokenEnds(text, k) = {} THEN Tokens(text, k + 1)
    ELSE LET j == CHOOSE e \in TokenEnds(text, k) : TRUE IN
         {<<k, j>>} \cup Tokens(text, j + 1)

\* the text with each token replaced by what the claim says becomes of it
RECURSIVE ExpectedFrom(_, _, _)
ExpectedFrom(store, text, k) ==
    IF k > Len(text) THEN <<>>
    ELSE IF TokenEnds(text, k) = {} THEN <<text[k]>> \o ExpectedFrom(store, text, k + 1)
    ELSE LET j == CHOOSE e \in TokenEnds(text, k) : TRUE IN
         Rewritten(store, SubSeq(text, k, j)) \o ExpectedFrom(store, text, j + 1)

\* C3: every token of the text comes back with the nickname stored for its id,
\* or unchanged when the id has no record, the stored nickname equals the
\* token's or is empty; the text outside the tokens comes back unchanged.
C3_TokensRewritten ==
    phase = "done" => text_out = ExpectedFrom(store_in, text_in, 1)

\* one token rewritten and one of an id without a record kept, in one text
C3_Witness ==
    /\ phase = "done"
    /\ LET toks == Tokens(text_in, 1) IN
       \E o, q \in toks :
          LET t == SubSeq(text_in, o[1], o[2])
              u == SubSeq(text_in, q[1], q[2])
          IN  /\ IdOf(t) \in DOMAIN store_in
              /\ Rewritten(store_in, t) # t
              /\ IdOf(u) \notin DOMAIN store_in
    /\ text_out # text_in

(***************************************************************************)
(* The hook and the commands: claims                                       *)
(***************************************************************************)
\* the record the hook holds for the sender, else the one in the store
SenderRecord ==
    IF DOMAIN ev.record # {} THEN ev.record
    ELSE IF ev.user \in DOMAIN user_file THEN user_file[ev.user]
    ELSE EmptyMap

\* C4: every hook invocation for an aiocqhttp sender leaves the system prompt
\* equal to the user-info block of the sender's record followed by the
\* original system prompt, on the first and on every later request.
C4_PromptPrependedOnEveryRequest ==
    (ev.kind = "hook" /\ ev.platform = "aiocqhttp") =>
        /\ DOMAIN SenderRecord # {}
        /\ ev.system_prompt =
               inject_prompt(SenderRecord, variant = "new" /\ ev.group_id # NoGroup,
                             ev.original, today, variant)
        /\ Len(ev.system_prompt) > Len(ev.original)

\* C5: after a hook invocation for a sender without a record in the store, the
\* store holds a record under the sender's id with that qq_number; a sender
\* that had a record gets no new or replaced one.
C5_NewSenderRecorded ==
    (ev.kind = "hook" /\ ev.platform = "aiocqhttp") =>
        /\ ~ev.had_record =>
              /\ ev.user \in DOMAIN user_file
              /\ user_file[ev.user].qq_number = ev.user
        /\ ev.had_record => ~ev.wrote_user

\* C6: a user record is never deleted: an id that has a record in the store
\* has one in every later state.
C6_RecordsNeverDeleted ==
    [][\A u \in Users : u \in DOMAIN user_file => u \in DOMAIN user_file']_vars

\* C7: a hook invocation that was suspended at a platform call saves the copy
\* of the store it loaded before, with the sender's new record: whatever the
\* other users' commands saved in between is overwritten.
C7_HookSavesStaleCopy ==
    [][\A v \in Users :
          (hook[v].pc # "idle" /\ hook'[v].pc = "idle" /\ ev'.wrote_user) =>
              \A w \in Users \ {v} :
                  /\ w \in DOMAIN user_file' <=> w \in DOMAIN hook[v].all_user_info
                  /\ w \in DOMAIN user_file' =>
                        user_file'[w] = hook[v].all_user_info[w]]_vars

\* the hook of a new user has just saved, and the edit acknowledged to another
\* user, which was in the store until then, is no longer in it
C7_Witness ==
    /\ ev.kind = "hook"
    /\ ev.lost_edit
    /\ last_ack.user \in DOMAIN user_file
    /\ last_ack.user # ev.user
    /\ Get(user_file[last_ack.user], last_ack.field, <<>>) # last_ack.value

IsISODate(s) ==
    /\ Len(s) = 10
    /\ s[5] = "-"
    /\ s[8] = "-"
    /\ \A k \in {1, 2, 3, 4, 6, 7, 9, 10} : s[k] \in Digits
    /\ IsRealDate(s)

\* C9: the birthday of every stored record is the sentinel or an ISO date.
C9_BirthdayIsoOrUnknown ==
    \A u \in DOMAIN user_file :
        "birthday" \in DOMAIN user_file[u] =>
            \/ user_file[u].birthday = UNKNOWN
            \/ IsISODate(user_file[u].birthday)

\* C10: after a hook invocation for a group message in which nothing failed,
\* the sender's user record and the group record written from it carry the
\* role and title the platform reported for the sender when the hook returned.
C10_LastSeenRoleAndTitle ==
    (/\ ev.kind = "hook"
     /\ ev.platform = "aiocqhttp"
     /\ ev.group_id = GroupId
     /\ ~ev.fault) =>
        LET u == ev.user
            role == ev.reported.role
            title == IF ev.reported.title = <<>> THEN WU ELSE ev.reported.title
        IN  /\ u \in DOMAIN user_file
            /\ Get(user_file[u], "group_role", <<>>) = role
            /\ Get(user_file[u], "group_title", <<>>) = title
            /\ GroupId \in DOMAIN group_file
            /\ u \in DOMAIN group_file[GroupId]
            /\ group_file[GroupId][u].group_role = role
            /\ group_file[GroupId][u].group_title = title

(***************************************************************************)
(* The edit commands: claims                                               *)
(***************************************************************************)
\* a step in which the command cmd ran for a sender that has a record, with
\* the read and the write of the store succeeding
EditStep(cmd) ==
    /\ n_calls' = n_calls + 1
    /\ ev'.kind = "cmd"
    /\ ev'.cmd = cmd
    /\ ev'.user \in DOMAIN user_file
    /\ ~ev'.fault

\* the store after the step is the store before it with one field of u set
OnlyFieldSet(u, field, value) ==
    /\ DOMAIN user_file' = DOMAIN user_file
    /\ \A w \in DOMAIN user_file \ {u} : user_file'[w] = user_file[w]
    /\ DOMAIN user_file'[u] = DOMAIN user_file[u] \cup {field}
    /\ user_file'[u][field] = value
    /\ \A k \in DOMAIN user_file[u] \ {field} : user_file'[u][k] = user_file[u][k]

\* C11: update_gender for a sender with a record stores each of the values
\* male, female and unknown as the sender's gender; every other value is
\* rejected with a reply and the store stays as it was.
C11_GenderThreeValuesAccepted ==
    [][EditStep("update_gender") =>
          IF ev'.arg \in {<<"nan">>, <<"nv">>, UNKNOWN}
          THEN OnlyFieldSet(ev'.user, "gender", ev'.arg)
          ELSE user_file' = user_file /\ ev'.reply # <<>>]_vars

\* what the claim requires of an argument of update_birthday
ValidBirthdayArg(s, now) ==
    /\ IsYMD(s)
    /\ 1900 <= YearOf(s)
    /\ YearOf(s) <= now.year
    /\ 1 <= MonthOf(s)
    /\ MonthOf(s) <= 12
    /\ 1 <= DayOf(s)
    /\ DayOf(s) <= 31

NextHookAfterEdit ==
    /\ last_ack.user \in Users
    /\ last_ack' = NoAck
    /\ IF hook'[last_ack.user].pc # "idle" THEN ~hook'[last_ack.user].fault
       ELSE ~ev'.fault

\* C13: in the older variant a user whose edit was saved is not in
\* loaded_users, and the next hook invocation for that user does not return
\* early: it leaves a system prompt whose user-info block is built from the
\* record with the edited value.
C13_EditRefreshesNextPrompt ==
    [][/\ (EditStep("update_nickname") \/ EditStep("update_birthday")
             \/ EditStep("update_gender")) =>
              (ev'.wrote_user => ev'.user \notin loaded_users')
       /\ NextHookAfterEdit =>
              /\ last_ack.user \notin loaded_users
              /\ hook'[last_ack.user].pc = "idle"
              /\ ev'.kind = "hook"
              /\ ev'.user = last_ack.user
              /\ ~ev'.early
              /\ Get(ev'.record, last_ack.field, <<>>) = last_ack.value
              /\ ev'.system_prompt =
                     inject_prompt(ev'.record, FALSE, ev'.original, today, variant)
              /\ Len(ev'.system_prompt) > Len(ev'.original)]_vars

(***************************************************************************)
(* replace_nickname_in_context applied twice                               *)
(***************************************************************************)
\* C14: replace_nickname_in_context applied to its own output with the same
\* store returns that output unchanged, also when a stored nickname contains
\* "]" or "[".
C14_ReplaceIdempotent ==
    phase = "again" => text_again = text_out

(***************************************************************************)
(* The gender segment of the prompt summary                                *)
(***************************************************************************)
\* C15: the summary the hook puts into the system prompt has a gender
\* segment exactly when the record's gender is male or female; a record whose
\* gender is the sentinel or that has no gender field gives none.
C15_GenderSegmentOnlyWhenKnown ==
    (ev.kind = "hook" /\ ~ev.early /\ DOMAIN ev.record # {}) =>
        (Contains(ev.system_prompt, "xingbie: ")
            <=> Get(ev.record, "gender", UNKNOWN) \in {<<"nan">>, <<"nv">>})

====
